---- MODULE Spec2Model ----
(***************************************************************************)
(* A model of the E-Learning-Platform services:                            *)
(*   src/video_conferencing.py  VideoConferencingService   (Spec)          *)
(*   src/auth_service.py        AuthService                (AuthSpec)      *)
(*   src/course_management.py   CourseManagementService    (EnrollSpec,    *)
(*                                                          EnrollConcSpec)*)
(*   src/progress_tracking.py   ProgressTrackingService    (ProgressSpec)  *)
(* Every service method is one action.  The database tables are the state. *)
(* `result` holds the dict returned by the call that made the last step.   *)
(***************************************************************************)
EXTENDS Integers, Sequences, FiniteSets, TLC

VARIABLES
    users,          \* User table: id -> row
    rooms,          \* VideoConferenceRoom table: room_id -> row
    participants,   \* ConferenceParticipant table: <<room_id, user_id>> -> row
    now,            \* the last reading of the clock, in seconds (hours in AuthSpec)
    result,         \* the dict the last call returned, with the call's arguments
    held,           \* AuthSpec: the token the client holds (last one issued)
    plain,          \* AuthSpec: id -> the password last set through make_password
    courses,        \* Course table: id -> row
    enrollments,    \* Enrollment table: a sequence of rows
    calls,          \* EnrollConcSpec: request -> its position in enroll_student
    progress,       \* LessonProgress table: <<student_id, lesson_id>> -> row
    courseProgress, \* Enrollment.progress_percentage as update_course_progress leaves it
    questions,      \* Question table: a set of rows
    answers         \* Answer table: a set of rows

vars == <<users, rooms, participants, now, result, held, plain, courses,
          enrollments, calls, progress, courseProgress, questions, answers>>

confVars == <<rooms, participants>>
authVars == <<held, plain>>
courseVars == <<courses, enrollments, calls>>
progressVars == <<progress, courseProgress>>
quizVars == <<questions, answers>>

----------------------------------------------------------------------------
(* Bounds of the model *)

\* the clock is read at multiples of 30 seconds, up to MaxTick of them
MaxTick == 2
\* create_conference_room is called with max_participants in 0..MaxCap
MaxCap == 2

\* null=True fields hold None
None == 0 - 1

Times == {30 * t : t \in 0..MaxTick}

\* the clock never runs backwards: a reading is at or after the last one
Later(t) == {x \in Times : x >= t}

----------------------------------------------------------------------------
(* Users: the rows the other services find in the User table *)

SeedUsers ==
    (1 :> [username |-> "ann", email |-> "ann@x", password |-> <<"pbkdf2_sha256", "pw1">>, role |-> "instructor"])
    @@ (2 :> [username |-> "bob", email |-> "bob@x", password |-> <<"pbkdf2_sha256", "pw1">>, role |-> "student"])

\* ids a caller may pass: every row's id and one id that has no row
CallerIds == DOMAIN SeedUsers \cup {Cardinality(DOMAIN SeedUsers) + 1}

----------------------------------------------------------------------------
(* Video conferencing *)

\* the uuids create_conference_room can issue; a call that names a room before
\* it is created is a call with an unknown room_id
RoomIds == {"r1"}

STATUS_CHOICES == {"scheduled", "active", "ended", "cancelled"}
ParticipantRoles == {"participant", "presenter"}
SecondsPerMinute == 60

NoResult == [op |-> "none", room |-> "r0", user |-> 0, success |-> FALSE,
             message |-> "", value |-> None]

Ok(op, r, u, msg, v) == [op |-> op, room |-> r, user |-> u, success |-> TRUE,
                         message |-> msg, value |-> v]
Fail(op, r, u, msg) == [op |-> op, room |-> r, user |-> u, success |-> FALSE,
                        message |-> msg, value |-> None]

\* int(x): truncation toward zero
IntTrunc(num, den) == IF num >= 0 THEN num \div den ELSE 0 - ((0 - num) \div den)

\* int((b - a).total_seconds() / 60)
DurationMinutesMutant(a, b) == (b - a + SecondsPerMinute \div 2) \div SecondsPerMinute
DurationMinutes(a, b) == IntTrunc(b - a, SecondsPerMinute)

\* room.participants.count()
ParticipantCount(r) == Cardinality({p \in DOMAIN participants : p[1] = r})

\* User.objects.get(id=host_id, role__in=['instructor', 'admin'])
IsHostUser(u) == u \in DOMAIN users /\ users[u].role \in {"instructor", "admin"}

\* VideoConferenceRoom.objects.get(room_id=room_id, host_id=host_id)
HostedRoomMutant(r, u) == r \in DOMAIN rooms
HostedRoom(r, u) == r \in DOMAIN rooms /\ rooms[r].host = u

\* if room.status != 'scheduled': return failure
CanStartMutant(room) == TRUE
CanStart(room) == room.status = "scheduled"

\* if room.status != 'active': return failure
CanEndMutant(room) == TRUE
CanEnd(room) == room.status = "active"

\* join_conference: if room.status != 'active': return failure
CanJoinMutant(room) == TRUE
CanJoin(room) == room.status = "active"

\* if current_participants >= room.max_participants: return failure
AtCapacityMutant(count, max) == count > max
AtCapacity(count, max) == count >= max

create_conference_room(host_id, max_participants) ==
    /\ IF IsHostUser(host_id)
       THEN \E r \in RoomIds \ DOMAIN rooms :
              /\ rooms' = rooms @@ (r :> [host |-> host_id, status |-> "scheduled",
                                          actual_start |-> None, actual_end |-> None,
                                          max_participants |-> max_participants])
              /\ participants' = participants @@
                     (<<r, host_id>> :> [role |-> "host", joined_at |-> None,
                                         left_at |-> None, duration_minutes |-> 0])
              /\ result' = Ok("create_conference_room", r, host_id,
                              "Conference room created successfully", None)
       ELSE /\ result' = Fail("create_conference_room", "r0", host_id,
                              "Host not found or not authorized")
            /\ UNCHANGED confVars
    /\ UNCHANGED <<users, now, authVars, courseVars, progressVars, quizVars>>

add_participant(room_id, user_id, role) ==
    /\ IF room_id \notin DOMAIN rooms \/ user_id \notin DOMAIN users
       THEN /\ result' = Fail("add_participant", room_id, user_id, "Room or user not found")
            /\ UNCHANGED participants
       ELSE IF AtCapacity(ParticipantCount(room_id), rooms[room_id].max_participants)
       THEN /\ result' = Fail("add_participant", room_id, user_id, "Room is at maximum capacity")
            /\ UNCHANGED participants
       ELSE IF <<room_id, user_id>> \notin DOMAIN participants
       THEN /\ participants' = participants @@
                     (<<room_id, user_id>> :> [role |-> role, joined_at |-> None,
                                               left_at |-> None, duration_minutes |-> 0])
            /\ result' = Ok("add_participant", room_id, user_id,
                            "Participant added successfully", None)
       ELSE /\ participants' = [participants EXCEPT ![<<room_id, user_id>>].role = role]
            /\ result' = Ok("add_participant", room_id, user_id, "Participant updated", None)
    /\ UNCHANGED <<users, rooms, now, authVars, courseVars, progressVars, quizVars>>

start_conference(room_id, host_id) ==
    /\ IF ~HostedRoom(room_id, host_id)
       THEN /\ result' = Fail("start_conference", room_id, host_id,
                              "Room not found or not authorized")
            /\ UNCHANGED <<rooms, now>>
       ELSE IF ~CanStart(rooms[room_id])
       THEN /\ result' = Fail("start_conference", room_id, host_id,
                              "Conference cannot be started")
            /\ UNCHANGED <<rooms, now>>
       ELSE \E t \in Later(now) :
              /\ now' = t
              /\ rooms' = [rooms EXCEPT ![room_id].status = "active",
                                        ![room_id].actual_start = t]
              /\ result' = Ok("start_conference", room_id, host_id,
                              "Conference started successfully", None)
    /\ UNCHANGED <<users, participants, authVars, courseVars, progressVars, quizVars>>

\* room.participants.filter(joined_at__isnull=False, left_at__isnull=True)
ActiveParticipantsMutant(r) == {}
ActiveParticipants(r) ==
    {p \in DOMAIN participants :
        p[1] = r /\ participants[p].joined_at # None /\ participants[p].left_at = None}

end_conference(room_id, host_id) ==
    /\ IF ~HostedRoom(room_id, host_id)
       THEN /\ result' = Fail("end_conference", room_id, host_id,
                              "Room not found or not authorized")
            /\ UNCHANGED <<rooms, participants, now>>
       ELSE IF ~CanEnd(rooms[room_id])
       THEN /\ result' = Fail("end_conference", room_id, host_id, "Conference is not active")
            /\ UNCHANGED <<rooms, participants, now>>
       ELSE \E t \in Later(now) :
            \* each participant.left_at is a later reading of the clock
            \E left \in [ActiveParticipants(room_id) -> Later(t)] :
              /\ now' = IF ActiveParticipants(room_id) = {} THEN t
                        ELSE CHOOSE m \in {left[p] : p \in DOMAIN left} :
                                 \A p \in DOMAIN left : left[p] <= m
              /\ rooms' = [rooms EXCEPT ![room_id].status = "ended",
                                        ![room_id].actual_end = t]
              /\ participants' =
                     [p \in DOMAIN participants |->
                        IF p \in ActiveParticipants(room_id)
                        THEN [participants[p] EXCEPT
                                 !.left_at = left[p],
                                 !.duration_minutes =
                                     DurationMinutes(participants[p].joined_at, left[p])]
                        ELSE participants[p]]
              /\ result' = Ok("end_conference", room_id, host_id,
                              "Conference ended successfully",
                              DurationMinutes(rooms[room_id].actual_start, t))
    /\ UNCHANGED <<users, authVars, courseVars, progressVars, quizVars>>

join_conference(room_id, user_id) ==
    /\ IF room_id \notin DOMAIN rooms
       THEN /\ result' = Fail("join_conference", room_id, user_id, "Room not found")
            /\ UNCHANGED <<participants, now>>
       ELSE IF <<room_id, user_id>> \notin DOMAIN participants
       THEN /\ result' = Fail("join_conference", room_id, user_id,
                              "Not invited to this conference")
            /\ UNCHANGED <<participants, now>>
       ELSE IF ~CanJoin(rooms[room_id])
       THEN /\ result' = Fail("join_conference", room_id, user_id, "Conference is not active")
            /\ UNCHANGED <<participants, now>>
       ELSE \E t \in Later(now) :
              /\ now' = t
              /\ participants' = [participants EXCEPT ![<<room_id, user_id>>].joined_at = t]
              /\ result' = Ok("join_conference", room_id, user_id,
                              "Joined conference successfully", None)
    /\ UNCHANGED <<users, rooms, authVars, courseVars, progressVars, quizVars>>

leave_conference(room_id, user_id) ==
    /\ IF room_id \notin DOMAIN rooms \/ <<room_id, user_id>> \notin DOMAIN participants
       THEN /\ result' = Fail("leave_conference", room_id, user_id,
                              "Room or participation not found")
            /\ UNCHANGED <<participants, now>>
       ELSE \E t \in Later(now) :
              LET p == participants[<<room_id, user_id>>]
                  d == IF p.joined_at # None THEN DurationMinutes(p.joined_at, t)
                       ELSE p.duration_minutes
              IN /\ now' = t
                 /\ participants' = [participants EXCEPT
                        ![<<room_id, user_id>>] = [p EXCEPT !.left_at = t,
                                                            !.duration_minutes = d]]
                 /\ result' = Ok("leave_conference", room_id, user_id,
                                 "Left conference successfully", d)
    /\ UNCHANGED <<users, rooms, authVars, courseVars, progressVars, quizVars>>

Init ==
    /\ users = SeedUsers
    /\ rooms = << >>
    /\ participants = << >>
    /\ now = 0
    /\ result = NoResult
    /\ held = None
    /\ plain = << >>
    /\ courses = << >>
    /\ enrollments = << >>
    /\ calls = << >>
    /\ progress = << >>
    /\ courseProgress = << >>
    /\ questions = {}
    /\ answers = {}

Next ==
    \/ \E u \in CallerIds, m \in 0..MaxCap : create_conference_room(u, m)
    \/ \E r \in RoomIds, u \in CallerIds, role \in ParticipantRoles : add_participant(r, u, role)
    \/ \E r \in RoomIds, u \in CallerIds : start_conference(r, u)
    \/ \E r \in RoomIds, u \in CallerIds : end_conference(r, u)
    \/ \E r \in RoomIds, u \in CallerIds : join_conference(r, u)
    \/ \E r \in RoomIds, u \in CallerIds : leave_conference(r, u)

Spec == Init /\ [][Next]_vars

----------------------------------------------------------------------------
(* Authentication: AuthService, checked under AuthSpec.  The clock is in    *)
(* hours here.                                                              *)

\* the clock is read at multiples of 24 hours, up to MaxHourTick of them
MaxHourTick == 2
\* register_user stops creating rows at MaxUsers
MaxUsers == 2

TokenHours == 24
HourTimes == {24 * t : t \in 0..MaxHourTick}
LaterHours(t) == {x \in HourTimes : x >= t}

Usernames == {"ann", "bob"}
Emails == {"a@x", "b@x"}
Passwords == {"pw1", "pw2"}
\* role is stored as given: ROLE_CHOICES is not enforced by objects.create
RoleArgs == {"student", "guest"}

SECRET_KEY == "settings.SECRET_KEY"

\* django.contrib.auth.hashers: the stored value is a hash, never the password
make_password(p) == <<"pbkdf2_sha256", p>>
check_passwordMutant(p, encoded) == TRUE
check_password(p, encoded) == encoded = make_password(p)

\* jwt.encode(payload, key, algorithm='HS256'): the payload and its HMAC
JwtEncode(payload, key) == [payload |-> payload, sig |-> <<key, payload>>]

NoPayload == [user_id |-> None, username |-> "", role |-> "", exp |-> None]
NoToken == [payload |-> NoPayload, sig |-> <<"", NoPayload>>]

\* jwt.decode(token, key, algorithms=['HS256']) at time t: the signature is
\* verified first, then exp.  At t = exp the answer depends on the PyJWT
\* release (exp < now or exp <= now), so either outcome is possible there.
JwtDecode(token, key, t) ==
    IF token.sig # <<key, token.payload>> THEN {"InvalidTokenError"}
    ELSE IF token.payload.exp < t THEN {"ExpiredSignatureError"}
    ELSE IF token.payload.exp = t THEN {"ExpiredSignatureError", "ok"}
    ELSE {"ok"}

\* what a client can send as a token: the one it holds, that one with the
\* user id altered, and one signed with another key
Tamper(token) == [token EXCEPT !.payload.user_id = token.payload.user_id + 1]
Forge(token) == JwtEncode(token.payload, "guessed")
TokenArgs == {held, Tamper(held), Forge(held)}

AuthRes(op, args, success, msg, token, uid, role) ==
    [op |-> op, args |-> args, success |-> success, message |-> msg,
     token |-> token, user_id |-> uid, role |-> role]
AuthFail(op, args, msg) == AuthRes(op, args, FALSE, msg, NoToken, None, "")

\* User.objects.filter(username=username).exists()
UsernameExists(n) == \E i \in DOMAIN users : users[i].username = n

\* User.objects.filter(email=email).exists()
EmailExistsMutant(e) == FALSE
EmailExists(e) == \E i \in DOMAIN users : users[i].email = e

\* the id the database gives the next row (no row is ever deleted)
NextUserId == Cardinality(DOMAIN users) + 1

register_user(username, email, password, role) ==
    LET args == <<username, email>> IN
    /\ IF UsernameExists(username)
       THEN /\ result' = AuthFail("register_user", args, "Username already exists")
            /\ UNCHANGED <<users, plain>>
       ELSE IF EmailExists(email)
       THEN /\ result' = AuthFail("register_user", args, "Email already registered")
            /\ UNCHANGED <<users, plain>>
       ELSE /\ Cardinality(DOMAIN users) < MaxUsers
            /\ users' = users @@ (NextUserId :>
                   [username |-> username, email |-> email,
                    password |-> make_password(password), role |-> role])
            /\ plain' = plain @@ (NextUserId :> password)
            /\ result' = AuthRes("register_user", args, TRUE, "User registered successfully",
                                 NoToken, NextUserId, role)
    /\ UNCHANGED <<now, held, confVars, courseVars, progressVars, quizVars>>

\* User.objects.get(username=username): usernames are unique (AbstractUser)
UserByName(n) == CHOOSE i \in DOMAIN users : users[i].username = n

login_user(username, password) ==
    LET args == <<username, password>> IN
    /\ IF ~UsernameExists(username)
       THEN /\ result' = AuthFail("login_user", args, "User not found")
            /\ UNCHANGED <<now, held>>
       ELSE IF ~check_password(password, users[UserByName(username)].password)
       THEN /\ result' = AuthFail("login_user", args, "Invalid password")
            /\ UNCHANGED <<now, held>>
       ELSE \E t \in LaterHours(now) :
              LET i == UserByName(username)
                  token == JwtEncode([user_id |-> i, username |-> users[i].username,
                                      role |-> users[i].role, exp |-> t + TokenHours],
                                     SECRET_KEY)
              IN /\ now' = t
                 /\ held' = token
                 /\ result' = AuthRes("login_user", args, TRUE, "Login successful",
                                      token, i, users[i].role)
    /\ UNCHANGED <<users, plain, confVars, courseVars, progressVars, quizVars>>

verify_token(token) ==
    /\ \E t \in LaterHours(now) :
       \E outcome \in JwtDecode(token, SECRET_KEY, t) :
         /\ now' = t
         /\ IF outcome = "ExpiredSignatureError"
            THEN result' = AuthFail("verify_token", <<token>>, "Token expired")
            ELSE IF outcome = "InvalidTokenError"
            THEN result' = AuthFail("verify_token", <<token>>, "Invalid token")
            ELSE IF token.payload.user_id \notin DOMAIN users
            THEN result' = AuthFail("verify_token", <<token>>, "User not found")
            ELSE result' = AuthRes("verify_token", <<token>>, TRUE, "", NoToken,
                                   token.payload.user_id,
                                   users[token.payload.user_id].role)
    /\ UNCHANGED <<users, held, plain, confVars, courseVars, progressVars, quizVars>>

change_password(user_id, old_password, new_password) ==
    LET args == <<user_id>> IN
    /\ IF user_id \notin DOMAIN users
       THEN /\ result' = AuthFail("change_password", args, "User not found")
            /\ UNCHANGED <<users, plain>>
       ELSE IF ~check_password(old_password, users[user_id].password)
       THEN /\ result' = AuthFail("change_password", args, "Current password is incorrect")
            /\ UNCHANGED <<users, plain>>
       ELSE /\ users' = [users EXCEPT ![user_id].password = make_password(new_password)]
            /\ plain' = [plain EXCEPT ![user_id] = new_password]
            /\ result' = AuthRes("change_password", args, TRUE,
                                 "Password changed successfully", NoToken, user_id, "")
    /\ UNCHANGED <<now, held, confVars, courseVars, progressVars, quizVars>>

\* update_profile(user_id, **{field: value}) with field one of username, email,
\* role.  username is unique in the database (AbstractUser): saving a
\* duplicate raises IntegrityError, which update_profile does not catch.
update_profile(user_id, field, value) ==
    LET args == <<user_id, field>> IN
    /\ IF user_id \notin DOMAIN users
       THEN /\ result' = AuthFail("update_profile", args, "User not found")
            /\ UNCHANGED users
       ELSE IF /\ field = "username"
               /\ \E i \in DOMAIN users \ {user_id} : users[i].username = value
       THEN /\ result' = AuthFail("update_profile", args, "raised IntegrityError")
            /\ UNCHANGED users
       ELSE /\ users' = [users EXCEPT ![user_id] =
                   IF field = "username" THEN [@ EXCEPT !.username = value]
                   ELSE IF field = "email" THEN [@ EXCEPT !.email = value]
                   ELSE [@ EXCEPT !.role = value]]
            /\ result' = AuthRes("update_profile", args, TRUE,
                                 "Profile updated successfully", NoToken, user_id, "")
    /\ UNCHANGED <<now, held, plain, confVars, courseVars, progressVars, quizVars>>

\* RoleBasedAccessControl.PERMISSIONS
PERMISSIONS ==
    [admin |-> {"create_course", "edit_course", "delete_course",
                "manage_users", "view_analytics", "manage_system"},
     instructor |-> {"create_course", "edit_own_course", "view_course_analytics",
                     "manage_students", "create_quiz", "grade_quiz"},
     student |-> {"view_course", "take_quiz", "view_progress",
                  "join_video_conference"}]

\* permission in cls.PERMISSIONS.get(user_role, [])
check_permissionMutant(user_role, permission) == TRUE
check_permission(user_role, permission) ==
    permission \in (IF user_role \in DOMAIN PERMISSIONS THEN PERMISSIONS[user_role] ELSE {})

\* auth_required(permission=None): Python's None, and the permissions views ask for
NoPermission == "None"
PermissionArgs == {NoPermission, "view_course", "create_course"}

\* the Authorization header of a request: absent, or a scheme and what follows
\* the first space
NoHeader == [scheme |-> "", token |-> NoToken]
Header(scheme, token) == [scheme |-> scheme, token |-> token]
HeaderArgs == {NoHeader, Header("Basic", held), Header("Bearer", held),
               Header("Bearer", Forge(held))}

\* not auth_header or not auth_header.startswith('Bearer ')
BearerHeader(header) == header # NoHeader /\ header.scheme = "Bearer"

\* what the wrapper answers: a JsonResponse with a status, or view_func's response
GateRes(header, permission, response, success, msg, uid, role) ==
    [op |-> "auth_required", args |-> <<header, permission>>, success |-> success,
     message |-> msg, token |-> NoToken, user_id |-> uid, role |-> role,
     response |-> response]

auth_required(header, permission) ==
    /\ IF ~BearerHeader(header)
       THEN /\ result' = GateRes(header, permission, "401", FALSE,
                                 "Authentication required", None, "")
            /\ UNCHANGED now
       ELSE \E t \in LaterHours(now) :
            \E outcome \in JwtDecode(header.token, SECRET_KEY, t) :
              LET uid == header.token.payload.user_id IN
              /\ now' = t
              /\ IF outcome = "ExpiredSignatureError"
                 THEN result' = GateRes(header, permission, "401", FALSE,
                                        "Token expired", None, "")
                 ELSE IF outcome = "InvalidTokenError"
                 THEN result' = GateRes(header, permission, "401", FALSE,
                                        "Invalid token", None, "")
                 ELSE IF uid \notin DOMAIN users
                 THEN result' = GateRes(header, permission, "401", FALSE,
                                        "User not found", None, "")
                 ELSE IF /\ permission # NoPermission
                         /\ ~check_permission(users[uid].role, permission)
                 THEN result' = GateRes(header, permission, "403", FALSE,
                                        "Permission denied", None, "")
                 ELSE result' = GateRes(header, permission, "view_func", TRUE, "",
                                        uid, users[uid].role)
    /\ UNCHANGED <<users, held, plain, confVars, courseVars, progressVars, quizVars>>

AuthInit ==
    /\ users = << >>
    /\ held = NoToken
    /\ plain = << >>
    /\ now = 0
    /\ result = AuthFail("none", << >>, "")
    /\ rooms = << >>
    /\ participants = << >>
    /\ courses = << >>
    /\ enrollments = << >>
    /\ calls = << >>
    /\ progress = << >>
    /\ courseProgress = << >>
    /\ questions = {}
    /\ answers = {}

AuthNext ==
    \/ \E n \in Usernames, e \in Emails, p \in Passwords, r \in RoleArgs :
          register_user(n, e, p, r)
    \/ \E n \in Usernames, p \in Passwords : login_user(n, p)
    \/ \E tok \in TokenArgs : verify_token(tok)
    \/ \E i \in 1..(MaxUsers + 1), p \in Passwords, q \in Passwords : change_password(i, p, q)
    \/ \E i \in 1..(MaxUsers + 1), n \in Usernames : update_profile(i, "username", n)
    \/ \E i \in 1..(MaxUsers + 1), e \in Emails : update_profile(i, "email", e)
    \/ \E i \in 1..(MaxUsers + 1), r \in RoleArgs : update_profile(i, "role", r)
    \/ \E h \in HeaderArgs, perm \in PermissionArgs : auth_required(h, perm)

AuthSpec == AuthInit /\ [][AuthNext]_vars

----------------------------------------------------------------------------
(* Enrollment: CourseManagementService.enroll_student.  EnrollSpec runs the  *)
(* calls one at a time; EnrollConcSpec interleaves the database statements   *)
(* of concurrent calls.  The Course rows are those create_course and the     *)
(* admin site left: no service method sets is_published.                     *)

\* EnrollConcSpec: the number of concurrent enroll_student requests
NumCalls == 2

CourseIds == {1, 2}
CourseArgs == CourseIds \cup {Cardinality(CourseIds) + 1}
CourseTables == [CourseIds -> [instructor : {1}, is_published : BOOLEAN]]

EnrollRes(student_id, course_id, success, msg) ==
    [op |-> "enroll_student", student |-> student_id, course |-> course_id,
     success |-> success, message |-> msg]

\* User.objects.get(id=student_id, role='student')
IsStudent(u) == u \in DOMAIN users /\ users[u].role = "student"

\* Course.objects.get(id=course_id, is_published=True)
IsPublished(c) == c \in DOMAIN courses /\ courses[c].is_published

\* Enrollment.objects.get(student=student, course=course) finds a row
EnrollmentExists(s, c) == \E e \in enrollments : e.student = s /\ e.course = c

\* unique_together = ['student', 'course']: the INSERT raises IntegrityError
UniqueViolationMutant(s, c) == FALSE
UniqueViolation(s, c) == \E e \in enrollments : e.student = s /\ e.course = c

\* Enrollment.objects.create(student=student, course=course) at time t
NewEnrollment(s, c, t) ==
    [id |-> Cardinality(enrollments) + 1, student |-> s, course |-> c,
     enrolled_at |-> t, completed_at |-> None, progress_percentage |-> 0]

\* if created: success ... else: "Student already enrolled"
EnrollReplyMutant(s, c, created) == EnrollRes(s, c, TRUE, "Student enrolled successfully")
EnrollReply(s, c, created) ==
    IF created THEN EnrollRes(s, c, TRUE, "Student enrolled successfully")
    ELSE EnrollRes(s, c, FALSE, "Student already enrolled")

\* the lookups of enroll_student that end the call before get_or_create
EnrollLookupFailure(s, c) ==
    IF ~IsStudent(s) THEN EnrollRes(s, c, FALSE, "Student not found")
    ELSE EnrollRes(s, c, FALSE, "Course not found or not published")

enroll_student(student_id, course_id) ==
    /\ IF ~IsStudent(student_id) \/ ~IsPublished(course_id)
       THEN /\ result' = EnrollLookupFailure(student_id, course_id)
            /\ UNCHANGED <<enrollments, now>>
       \* get_or_create: get; on DoesNotExist create; on IntegrityError get again
       ELSE IF EnrollmentExists(student_id, course_id)
               \/ UniqueViolation(student_id, course_id)
       THEN /\ result' = EnrollReply(student_id, course_id, FALSE)
            /\ UNCHANGED <<enrollments, now>>
       ELSE \E t \in Later(now) :
              /\ now' = t
              /\ enrollments' = enrollments \cup {NewEnrollment(student_id, course_id, t)}
              /\ result' = EnrollReply(student_id, course_id, TRUE)
    /\ UNCHANGED <<users, courses, calls, confVars, authVars, progressVars, quizVars>>

\* The Lesson rows of each course, in module and lesson order; no service
\* method changes a lesson once add_lesson has created it.
Lessons ==
    {[id |-> 1, course |-> 1, is_preview |-> TRUE,  video_url |-> "v1", text_content |-> "t1"],
     [id |-> 2, course |-> 1, is_preview |-> FALSE, video_url |-> "v2", text_content |-> "t2"],
     [id |-> 3, course |-> 2, is_preview |-> FALSE, video_url |-> "v3", text_content |-> "t3"]}
LessonsOf(c) == {l \in Lessons : l.course = c}

\* user_id arguments of get_course_content: None, 0 and the user ids
ViewerArgs == CallerIds \cup {None, 0}

\* Python truth of a user_id argument: None and 0 are false
Truthy(u) == u # None /\ u # 0

\* if user_id and (lesson.is_preview or Enrollment.objects.filter(
\*     student_id=user_id, course=course).exists())
BodyIncludedMutant(lesson, user_id) == Truthy(user_id)
BodyIncluded(lesson, user_id) ==
    /\ Truthy(user_id)
    /\ \/ lesson.is_preview
       \/ \E e \in enrollments : e.student = user_id /\ e.course = lesson.course

\* lesson_data, with the body keys only after lesson_data.update(...)
LessonData(lesson, user_id) ==
    IF BodyIncluded(lesson, user_id)
    THEN [id |-> lesson.id, is_preview |-> lesson.is_preview,
          video_url |-> lesson.video_url, text_content |-> lesson.text_content]
    ELSE [id |-> lesson.id, is_preview |-> lesson.is_preview]

\* the reply of get_course_content: lessons maps each lesson id of the course
\* to its lesson_data (the module level of the tree is flattened)
ContentRes(user_id, course_id, success, msg, lessons) ==
    [op |-> "get_course_content", student |-> user_id, course |-> course_id,
     success |-> success, message |-> msg, lessons |-> lessons]

get_course_content(course_id, user_id) ==
    /\ IF course_id \notin DOMAIN courses
       THEN result' = ContentRes(user_id, course_id, FALSE, "Course not found", << >>)
       ELSE result' = ContentRes(user_id, course_id, TRUE, "",
                          [i \in {l.id : l \in LessonsOf(course_id)} |->
                              LessonData(CHOOSE l \in Lessons : l.id = i, user_id)])
    /\ UNCHANGED <<users, now, courseVars, confVars, authVars, progressVars, quizVars>>

EnrollInit ==
    /\ users = SeedUsers
    /\ courses \in CourseTables
    /\ enrollments = {}
    /\ calls = << >>
    /\ now = 0
    /\ result = EnrollRes(0, 0, FALSE, "")
    /\ rooms = << >>
    /\ participants = << >>
    /\ held = None
    /\ plain = << >>
    /\ progress = << >>
    /\ courseProgress = << >>
    /\ questions = {}
    /\ answers = {}

EnrollNext ==
    \/ \E s \in CallerIds, c \in CourseArgs : enroll_student(s, c)
    \/ \E c \in CourseArgs, u \in ViewerArgs : get_course_content(c, u)

EnrollSpec == EnrollInit /\ [][EnrollNext]_vars

(* Concurrent requests.  Each request runs enroll_student one database      *)
(* statement at a time: the two lookups (of tables nothing here writes),    *)
(* then get_or_create's SELECT, INSERT and, after IntegrityError, SELECT.   *)

Requests == 1..NumCalls

\* what no statement of enroll_student writes
concFrame == <<users, courses, result, confVars, authVars, progressVars, quizVars>>

IdleCall == [pc |-> "idle", reply |-> EnrollRes(0, 0, FALSE, ""), via |-> ""]
Done(reply, via) == [pc |-> "done", reply |-> reply, via |-> via]
At(pc, s, c) == [pc |-> pc, reply |-> EnrollRes(s, c, FALSE, ""), via |-> ""]

\* lines 247-248: the User and Course lookups
enroll_lookup(q, s, c) ==
    /\ calls[q].pc = "idle"
    /\ calls' = [calls EXCEPT ![q] =
           IF ~IsStudent(s) \/ ~IsPublished(c)
           THEN Done(EnrollLookupFailure(s, c), "lookup")
           ELSE At("get", s, c)]
    /\ UNCHANGED <<enrollments, now, concFrame>>

\* get_or_create: self.get(**kwargs)
enroll_get(q) ==
    /\ calls[q].pc = "get"
    /\ LET s == calls[q].reply.student
           c == calls[q].reply.course
       IN calls' = [calls EXCEPT ![q] =
              IF EnrollmentExists(s, c) THEN Done(EnrollReply(s, c, FALSE), "get")
              ELSE At("create", s, c)]
    /\ UNCHANGED <<enrollments, now, concFrame>>

\* get_or_create: self.create(**params) inside transaction.atomic()
enroll_create(q) ==
    /\ calls[q].pc = "create"
    /\ LET s == calls[q].reply.student
           c == calls[q].reply.course
       IN IF UniqueViolation(s, c)
          THEN /\ calls' = [calls EXCEPT ![q] = At("reget", s, c)]
               /\ UNCHANGED <<enrollments, now>>
          ELSE \E t \in Later(now) :
                 /\ now' = t
                 /\ enrollments' = enrollments \cup {NewEnrollment(s, c, t)}
                 /\ calls' = [calls EXCEPT ![q] = Done(EnrollReply(s, c, TRUE), "create")]
    /\ UNCHANGED concFrame

\* get_or_create: except IntegrityError: return self.get(**kwargs), False
enroll_reget(q) ==
    /\ calls[q].pc = "reget"
    /\ LET s == calls[q].reply.student
           c == calls[q].reply.course
       IN /\ EnrollmentExists(s, c)
          /\ calls' = [calls EXCEPT ![q] = Done(EnrollReply(s, c, FALSE), "reget")]
    /\ UNCHANGED <<enrollments, now, concFrame>>

EnrollConcInit ==
    /\ users = SeedUsers
    /\ courses \in CourseTables
    /\ enrollments = {}
    /\ calls = [q \in Requests |-> IdleCall]
    /\ now = 0
    /\ result = EnrollRes(0, 0, FALSE, "")
    /\ rooms = << >>
    /\ participants = << >>
    /\ held = None
    /\ plain = << >>
    /\ progress = << >>
    /\ courseProgress = << >>
    /\ questions = {}
    /\ answers = {}

EnrollConcNext ==
    \/ \E q \in Requests, s \in CallerIds, c \in CourseArgs : enroll_lookup(q, s, c)
    \/ \E q \in Requests : enroll_get(q)
    \/ \E q \in Requests : enroll_create(q)
    \/ \E q \in Requests : enroll_reget(q)

EnrollConcSpec == EnrollConcInit /\ [][EnrollConcNext]_vars

(* Concurrent add_participant requests on one room, checked under           *)
(* AddConcSpec.  Each request runs one database statement at a time: the    *)
(* two lookups, the count, then get_or_create's SELECT, INSERT and, after   *)
(* IntegrityError, SELECT, and the save of a row that was not created.      *)

\* the User table: the seed rows and one more student
ConcUsers ==
    SeedUsers @@
    (Cardinality(DOMAIN SeedUsers) + 1 :>
        [username |-> "cat", email |-> "cat@x", password |-> <<"pbkdf2_sha256", "pw1">>,
         role |-> "student"])
ConcCallerIds == DOMAIN ConcUsers \cup {Cardinality(DOMAIN ConcUsers) + 1}

addFrame == <<users, rooms, now, result, courses, enrollments, authVars, progressVars, quizVars>>

IdleAdd == [pc |-> "idle", room |-> "r0", user |-> 0, role |-> "", count |-> None,
            reply |-> NoResult]
AddAt(call, pc) == [call EXCEPT !.pc = pc]
AddDone(call, reply) == [call EXCEPT !.pc = "done", !.reply = reply]

\* lines 130-131: the room and user lookups
add_lookup(q, room_id, user_id, role) ==
    /\ calls[q].pc = "idle"
    /\ LET call == [IdleAdd EXCEPT !.room = room_id, !.user = user_id, !.role = role]
       IN calls' = [calls EXCEPT ![q] =
              IF room_id \notin DOMAIN rooms \/ user_id \notin DOMAIN users
              THEN AddDone(call, Fail("add_participant", room_id, user_id,
                                      "Room or user not found"))
              ELSE AddAt(call, "count")]
    /\ UNCHANGED <<participants, addFrame>>

\* lines 134-136: the COUNT query and the comparison with max_participants
add_count(q) ==
    /\ calls[q].pc = "count"
    /\ LET call == [calls[q] EXCEPT !.count = ParticipantCount(calls[q].room)]
       IN calls' = [calls EXCEPT ![q] =
              IF AtCapacity(call.count, rooms[call.room].max_participants)
              THEN AddDone(call, Fail("add_participant", call.room, call.user,
                                      "Room is at maximum capacity"))
              ELSE AddAt(call, "get")]
    /\ UNCHANGED <<participants, addFrame>>

\* get_or_create: self.get(**kwargs)
add_get(q) ==
    /\ calls[q].pc = "get"
    /\ calls' = [calls EXCEPT ![q] =
           IF <<calls[q].room, calls[q].user>> \in DOMAIN participants
           THEN AddAt(calls[q], "save")
           ELSE AddAt(calls[q], "create")]
    /\ UNCHANGED <<participants, addFrame>>

\* get_or_create: self.create(**params); unique_together = ['conference', 'user']
add_create(q) ==
    /\ calls[q].pc = "create"
    /\ LET call == calls[q] IN
       IF <<call.room, call.user>> \in DOMAIN participants
       THEN /\ calls' = [calls EXCEPT ![q] = AddAt(call, "reget")]
            /\ UNCHANGED participants
       ELSE /\ participants' = participants @@
                   (<<call.room, call.user>> :> [role |-> call.role, joined_at |-> None,
                                                 left_at |-> None, duration_minutes |-> 0])
            /\ calls' = [calls EXCEPT ![q] =
                   AddDone(call, Ok("add_participant", call.room, call.user,
                                    "Participant added successfully", None))]
    /\ UNCHANGED addFrame

\* get_or_create: except IntegrityError: return self.get(**kwargs), False
add_reget(q) ==
    /\ calls[q].pc = "reget"
    /\ calls' = [calls EXCEPT ![q] = AddAt(calls[q], "save")]
    /\ UNCHANGED <<participants, addFrame>>

\* lines 144-146: if not created: participant.role = role; participant.save()
add_save(q) ==
    /\ calls[q].pc = "save"
    /\ LET call == calls[q] IN
       /\ participants' = [participants EXCEPT ![<<call.room, call.user>>].role = call.role]
       /\ calls' = [calls EXCEPT ![q] =
              AddDone(call, Ok("add_participant", call.room, call.user,
                               "Participant updated", None))]
    /\ UNCHANGED addFrame

\* a scheduled room create_conference_room(1, m) made, with its host's row
AddConcInit ==
    /\ users = ConcUsers
    /\ \E m \in 1..MaxCap :
          rooms = ("r1" :> [host |-> 1, status |-> "scheduled", actual_start |-> None,
                            actual_end |-> None, max_participants |-> m])
    /\ participants = (<<"r1", 1>> :> [role |-> "host", joined_at |-> None,
                                       left_at |-> None, duration_minutes |-> 0])
    /\ calls = [q \in Requests |-> IdleAdd]
    /\ now = 0
    /\ result = NoResult
    /\ courses = << >>
    /\ enrollments = {}
    /\ held = None
    /\ plain = << >>
    /\ progress = << >>
    /\ courseProgress = << >>
    /\ questions = {}
    /\ answers = {}

AddConcNext ==
    \/ \E q \in Requests, r \in RoomIds \cup {"r0"}, u \in ConcCallerIds,
          role \in ParticipantRoles : add_lookup(q, r, u, role)
    \/ \E q \in Requests : add_count(q)
    \/ \E q \in Requests : add_get(q)
    \/ \E q \in Requests : add_create(q)
    \/ \E q \in Requests : add_reget(q)
    \/ \E q \in Requests : add_save(q)

AddConcSpec == AddConcInit /\ [][AddConcNext]_vars

----------------------------------------------------------------------------
(* Quizzes: CourseManagementService.add_question, checked under QuizSpec.   *)
(* Every ORM call commits on its own: add_question opens no transaction.    *)

\* the most questions the table holds, and the longest answers list
MaxQuestions == 2
MaxAnswers == 2

\* the Quiz rows create_quiz left, and the quiz_id arguments
QuizIds == {1}
QuizArgs == QuizIds \cup {Cardinality(QuizIds) + 1}

\* an entry of the answers list is a dict: with 'text' and 'is_correct', with
\* 'text' only, or without 'text'
AnswerData == {[text |-> "a", is_correct |-> TRUE], [text |-> "b"], [is_correct |-> FALSE]}
AnswerLists == UNION {[1..n -> AnswerData] : n \in 0..MaxAnswers}

QuizRes(quiz_id, answer_list, success, msg, question_id, raised) ==
    [op |-> "add_question", quiz |-> quiz_id, answers |-> answer_list,
     success |-> success, message |-> msg, question_id |-> question_id,
     raised |-> raised]

\* answer_data['text'] raises KeyError
LacksText(answer_data) == "text" \notin DOMAIN answer_data

\* how many Answer rows the loop creates before it ends or raises
AnswersCreatedMutant(answer_list) ==
    IF \E i \in 1..Len(answer_list) : LacksText(answer_list[i]) THEN 0
    ELSE Len(answer_list)
AnswersCreated(answer_list) ==
    IF \E i \in 1..Len(answer_list) : LacksText(answer_list[i])
    THEN (CHOOSE i \in 1..Len(answer_list) :
             /\ LacksText(answer_list[i])
             /\ \A j \in 1..(i - 1) : ~LacksText(answer_list[j])) - 1
    ELSE Len(answer_list)

\* Answer.objects.create(question=question, answer_text=answer_data['text'],
\*     is_correct=answer_data.get('is_correct', False), order=idx + 1)
NewAnswer(question_id, answer_data, idx) ==
    [id |-> Cardinality(answers) + idx, question |-> question_id,
     answer_text |-> answer_data.text,
     is_correct |-> IF "is_correct" \in DOMAIN answer_data THEN answer_data.is_correct
                    ELSE FALSE,
     order |-> idx]

\* answers=None takes the branch of the empty list
add_question(quiz_id, answer_list) ==
    /\ Cardinality(questions) < MaxQuestions
    /\ IF quiz_id \notin QuizIds
       THEN /\ result' = QuizRes(quiz_id, answer_list, FALSE, "Quiz not found", None, FALSE)
            /\ UNCHANGED quizVars
       ELSE LET question_id == Cardinality(questions) + 1
                n == AnswersCreated(answer_list)
            IN /\ questions' = questions \cup {[id |-> question_id, quiz |-> quiz_id]}
               /\ answers' = answers \cup
                      {NewAnswer(question_id, answer_list[i], i) : i \in 1..n}
               /\ IF n < Len(answer_list)
                  THEN result' = QuizRes(quiz_id, answer_list, FALSE, "raised KeyError",
                                         None, TRUE)
                  ELSE result' = QuizRes(quiz_id, answer_list, TRUE,
                                         "Question added successfully", question_id, FALSE)
    /\ UNCHANGED <<users, now, confVars, authVars, courseVars, progressVars>>

QuizInit ==
    /\ users = SeedUsers
    /\ questions = {}
    /\ answers = {}
    /\ result = QuizRes(0, << >>, FALSE, "", None, FALSE)
    /\ now = 0
    /\ rooms = << >>
    /\ participants = << >>
    /\ held = None
    /\ plain = << >>
    /\ courses = << >>
    /\ enrollments = {}
    /\ calls = << >>
    /\ progress = << >>
    /\ courseProgress = << >>

QuizNext == \E quiz_id \in QuizArgs, answer_list \in AnswerLists : add_question(quiz_id, answer_list)

QuizSpec == QuizInit /\ [][QuizNext]_vars

----------------------------------------------------------------------------
(* Claims about enrollment *)

RowsIn(table, s, c) == {e \in table : e.student = s /\ e.course = c}
Enrollable(s, c) ==
    /\ s \in DOMAIN users /\ users[s].role = "student"
    /\ c \in DOMAIN courses /\ courses[c].is_published

\* C8 (EnrollSpec): for a user with role 'student' and a published course,
\* enroll_student with no Enrollment row for the pair succeeds with "Student
\* enrolled successfully" and adds exactly one row; with a row for the pair
\* (every call after the first) it fails with "Student already enrolled" and
\* leaves the table unchanged; no pair ever has two rows.
C8_EnrollTwice ==
    [][/\ result'.op = "enroll_student" =>
            LET s == result'.student
                c == result'.course
            IN Enrollable(s, c) =>
                 /\ RowsIn(enrollments, s, c) = {} =>
                       /\ result'.success
                       /\ result'.message = "Student enrolled successfully"
                       /\ enrollments \subseteq enrollments'
                       /\ Cardinality(enrollments') = Cardinality(enrollments) + 1
                       /\ Cardinality(RowsIn(enrollments', s, c)) = 1
                 /\ RowsIn(enrollments, s, c) # {} =>
                       /\ ~result'.success
                       /\ result'.message = "Student already enrolled"
                       /\ UNCHANGED enrollments
       /\ \A s \in CallerIds, c \in CourseArgs :
             Cardinality(RowsIn(enrollments', s, c)) <= 1]_vars

\* the second call for a pair was refused, at a later time than the first
C8_Witness ==
    /\ result.op = "enroll_student"
    /\ result.message = "Student already enrolled"
    /\ \E e \in RowsIn(enrollments, result.student, result.course) : e.enrolled_at < now

\* C11 (EnrollSpec): get_course_content puts a lesson's body (video_url,
\* text_content) in the result only if the requester has an Enrollment row for
\* that course or the lesson is marked is_preview; a requester without a row,
\* and a call with no user id, gets no body of a lesson that is not a preview.
HasBody(lesson_data) ==
    "video_url" \in DOMAIN lesson_data \/ "text_content" \in DOMAIN lesson_data
C11_ContentGate ==
    [][(result'.op = "get_course_content" /\ result'.success) =>
          LET u == result'.student
              c == result'.course
          IN \A i \in DOMAIN result'.lessons :
                LET lesson == CHOOSE l \in Lessons : l.id = i
                    data == result'.lessons[i]
                IN /\ lesson.course = c
                   /\ HasBody(data) =>
                         /\ RowsIn(enrollments, u, c) # {} \/ lesson.is_preview
                         /\ data.video_url = lesson.video_url
                         /\ data.text_content = lesson.text_content
                   /\ (u = None \/ RowsIn(enrollments, u, c) = {}) =>
                         (~lesson.is_preview => ~HasBody(data))
                   /\ u = None => ~HasBody(data)]_vars

\* a requester who is not enrolled is shown the preview lesson's body and not
\* the body of the other lesson of the course, while another user is enrolled
C11_Witness ==
    /\ result.op = "get_course_content" /\ result.success
    /\ result.student \in DOMAIN users
    /\ RowsIn(enrollments, result.student, result.course) = {}
    /\ enrollments # {}
    /\ \E i, j \in DOMAIN result.lessons :
          HasBody(result.lessons[i]) /\ ~HasBody(result.lessons[j])

\* C16 (QuizSpec): when add_question fails partway through its answers (an
\* answer dict lacks 'text'), the Question row it created and the Answer rows
\* it created before the failing entry stay in the tables: nothing is rolled
\* back, and the caller gets the exception, not a reply.
C16_PartialQuestion ==
    [][(result'.op = "add_question" /\ result'.raised) =>
          LET answer_list == result'.answers
              bad == {i \in 1..Len(answer_list) : "text" \notin DOMAIN answer_list[i]}
              earlier == {i \in 1..Len(answer_list) : \A j \in bad : i < j}
              added == questions' \ questions
          IN /\ bad # {}
             /\ ~result'.success
             /\ questions \subseteq questions' /\ answers \subseteq answers'
             /\ Cardinality(added) = 1
             /\ \A q \in added :
                   /\ q.quiz = result'.quiz
                   /\ \A i \in earlier :
                         \E a \in answers' \ answers :
                            /\ a.question = q.id /\ a.order = i
                            /\ a.answer_text = answer_list[i].text
                   /\ Cardinality(answers' \ answers) = Cardinality(earlier)]_vars

\* the second answer lacked 'text': the question and its first answer are stored
C16_Witness ==
    /\ result.op = "add_question" /\ result.raised
    /\ Len(result.answers) > 1
    /\ "text" \in DOMAIN result.answers[1]
    /\ \E q \in questions : \E a \in answers :
          /\ q.id = Cardinality(questions)
          /\ a.question = q.id /\ a.order = 1

CallsFor(s, c) ==
    {q \in Requests : calls[q].pc # "idle"
                      /\ calls[q].reply.student = s /\ calls[q].reply.course = c}
Successes(s, c) == {q \in CallsFor(s, c) : calls[q].pc = "done" /\ calls[q].reply.success}
AllDone(s, c) == CallsFor(s, c) # {} /\ \A q \in CallsFor(s, c) : calls[q].pc = "done"

\* C9 (as amended, EnrollConcSpec): under every interleaving no (student,
\* course) pair has more than one Enrollment row and at most one call for a
\* pair reports success; once the calls for a pair have returned, exactly one
\* of them reported success if the user has role 'student' and the course is
\* published, and none did otherwise.
C9_ConcurrentEnroll ==
    \A s \in CallerIds, c \in CourseArgs :
       /\ Cardinality(RowsIn(enrollments, s, c)) <= 1
       /\ Cardinality(Successes(s, c)) <= 1
       /\ AllDone(s, c) =>
             Cardinality(Successes(s, c)) = IF Enrollable(s, c) THEN 1 ELSE 0

\* C9 as stated: once the calls for a pair have returned, exactly one of them
\* reported success.
C9_Original ==
    \A s \in CallerIds, c \in CourseArgs :
       /\ Cardinality(RowsIn(enrollments, s, c)) <= 1
       /\ AllDone(s, c) => Cardinality(Successes(s, c)) = 1

\* two calls for one pair both found no row; one inserted, the other hit the
\* unique constraint and read the row back
C9_Witness ==
    \E q1, q2 \in Requests :
       /\ calls[q1].pc = "done" /\ calls[q1].via = "create"
       /\ calls[q2].pc = "done" /\ calls[q2].via = "reget"
       /\ calls[q1].reply.student = calls[q2].reply.student
       /\ calls[q1].reply.course = calls[q2].reply.course

----------------------------------------------------------------------------
(* Progress tracking: ProgressTrackingService, checked under ProgressSpec.  *)
(* The Lesson rows belong to one module of one course.                      *)

\* update_lesson_progress stops adding to time_spent_minutes at MaxMinutes
MaxMinutes == 1

LessonIds == {1}
LessonArgs == LessonIds \cup {Cardinality(LessonIds) + 1}
\* completion_percentage as callers pass it
Percentages == {50, 100}
TimeSpentArgs == {0, 1}

ProgressRes(op, student_id, lesson_id, success, msg, progress_id) ==
    [op |-> op, student |-> student_id, lesson |-> lesson_id, success |-> success,
     message |-> msg, progress_id |-> progress_id]

\* LessonProgress.objects.get(student_id=student_id, lesson_id=lesson_id)
ProgressRowsMutant(s, l) == {}
ProgressRows(s, l) == {p \in progress : p.student = s /\ p.lesson = l}
ProgressRow(s, l) == CHOOSE p \in progress : p.student = s /\ p.lesson = l

\* if completion_percentage >= 100
IsComplete(pct) == pct >= 100

start_lesson(student_id, lesson_id) ==
    /\ IF student_id \notin DOMAIN users \/ lesson_id \notin LessonIds
       THEN /\ result' = ProgressRes("start_lesson", student_id, lesson_id, FALSE,
                                     "Student or lesson not found", None)
            /\ UNCHANGED <<progress, now>>
       \* get_or_create
       ELSE IF ProgressRows(student_id, lesson_id) # {}
       THEN /\ result' = ProgressRes("start_lesson", student_id, lesson_id, TRUE,
                                     "Lesson tracking started",
                                     ProgressRow(student_id, lesson_id).id)
            /\ UNCHANGED <<progress, now>>
       ELSE \E t \in Later(now) :
              LET row == [id |-> Cardinality(progress) + 1,
                          student |-> student_id, lesson |-> lesson_id,
                          is_completed |-> FALSE, time_spent_minutes |-> 0,
                          completion_percentage |-> 0, started_at |-> t,
                          completed_at |-> None, last_accessed |-> t]
              IN /\ now' = t
                 /\ progress' = progress \cup {row}
                 /\ result' = ProgressRes("start_lesson", student_id, lesson_id, TRUE,
                                          "Lesson tracking started", row.id)
    /\ UNCHANGED <<users, courseProgress, confVars, authVars, courseVars, quizVars>>

\* update_course_progress(student_id, course_id): the share of the course's
\* lessons the student has completed, as a percentage
CourseProgressOf(table, s) ==
    (100 * Cardinality({p \in table : p.student = s /\ p.is_completed}))
        \div Cardinality(LessonIds)
update_course_progress(table, s) ==
    [u \in DOMAIN courseProgress \cup {s} |->
        IF u = s THEN CourseProgressOf(table, s) ELSE courseProgress[u]]

update_lesson_progress(student_id, lesson_id, completion_percentage, time_spent) ==
    /\ IF ProgressRows(student_id, lesson_id) = {}
       THEN /\ result' = ProgressRes("update_lesson_progress", student_id, lesson_id,
                                     FALSE, "Progress record not found", None)
            /\ UNCHANGED <<progress, courseProgress, now>>
       ELSE LET old == ProgressRow(student_id, lesson_id) IN
            /\ old.time_spent_minutes + time_spent <= MaxMinutes
            \* completed_at is read from the clock before save() stamps last_accessed
            /\ \E tc \in Later(now) : \E ts \in Later(tc) :
                 LET row == [old EXCEPT
                         !.completion_percentage = completion_percentage,
                         !.time_spent_minutes = @ + time_spent,
                         !.last_accessed = ts,
                         !.is_completed =
                             IF IsComplete(completion_percentage) THEN TRUE ELSE @,
                         !.completed_at =
                             IF IsComplete(completion_percentage) THEN tc ELSE @]
                     table == (progress \ {old}) \cup {row}
                 IN /\ now' = ts
                    /\ progress' = table
                    /\ courseProgress' = update_course_progress(table, student_id)
                    /\ result' = ProgressRes("update_lesson_progress", student_id,
                                             lesson_id, TRUE,
                                             "Progress updated successfully", old.id)
    /\ UNCHANGED <<users, confVars, authVars, courseVars, quizVars>>

ProgressInit ==
    /\ users = SeedUsers
    /\ progress = {}
    /\ courseProgress = << >>
    /\ questions = {}
    /\ answers = {}
    /\ now = 0
    /\ result = ProgressRes("none", 0, 0, FALSE, "", None)
    /\ rooms = << >>
    /\ participants = << >>
    /\ held = None
    /\ plain = << >>
    /\ courses = << >>
    /\ enrollments = {}
    /\ calls = << >>

ProgressNext ==
    \/ \E s \in CallerIds, l \in LessonArgs : start_lesson(s, l)
    \/ \E s \in CallerIds, l \in LessonArgs, pct \in Percentages, m \in TimeSpentArgs :
          update_lesson_progress(s, l, pct, m)

ProgressSpec == ProgressInit /\ [][ProgressNext]_vars

----------------------------------------------------------------------------
(* Claims about progress tracking, checked under ProgressSpec *)

RowById(table, id) == CHOOSE p \in table : p.id = id

\* C10: a row's completed_at is set by the first update_lesson_progress whose
\* completion_percentage is >= 100, stays None under smaller percentages, and
\* once set is never written again.
C10_CompletedAtOnce ==
    [][\A old \in progress :
          LET new == RowById(progress', old.id) IN
          /\ (/\ result'.op = "update_lesson_progress"
              /\ result'.success
              /\ result'.student = old.student /\ result'.lesson = old.lesson
              /\ old.completed_at = None)
             => (new.completed_at # None <=> new.completion_percentage >= 100)
          /\ old.completed_at # None => new.completed_at = old.completed_at]_vars

\* C14 (ProgressSpec): there is at most one LessonProgress row for a (student,
\* lesson) pair; start_lesson for a pair that has a row returns that row's
\* progress_id and leaves the row as it was (completion_percentage,
\* is_completed, completed_at and time_spent_minutes are not reset), and for a
\* pair without a row adds one row and returns its id.
RowsOf(table, s, l) == {p \in table : p.student = s /\ p.lesson = l}
C14_StartLessonOnce ==
    [][/\ \A p, q \in progress' :
             (p.student = q.student /\ p.lesson = q.lesson) => p = q
       /\ (result'.op = "start_lesson" /\ result'.success) =>
             LET s == result'.student
                 l == result'.lesson
             IN /\ RowsOf(progress, s, l) # {} =>
                      /\ progress' = progress
                      /\ \A p \in RowsOf(progress, s, l) : result'.progress_id = p.id
                /\ RowsOf(progress, s, l) = {} =>
                      /\ progress \subseteq progress'
                      /\ Cardinality(progress') = Cardinality(progress) + 1
                      /\ \A p \in RowsOf(progress', s, l) : result'.progress_id = p.id]_vars

\* start_lesson was called again for a lesson the student had completed
C14_Witness ==
    /\ result.op = "start_lesson" /\ result.success
    /\ \E p \in RowsOf(progress, result.student, result.lesson) :
          /\ p.id = result.progress_id
          /\ p.is_completed /\ p.completion_percentage > 0
          /\ p.time_spent_minutes > 0
          /\ p.started_at < now

\* C21 (ProgressSpec): in every state, for every LessonProgress row,
\* is_completed is true exactly when the stored completion_percentage is
\* >= 100, and completed_at is set exactly when is_completed is true.
C21_CompletionConsistent ==
    \A p \in progress :
       /\ p.is_completed <=> p.completion_percentage >= 100
       /\ p.completed_at # None <=> p.is_completed

----------------------------------------------------------------------------
(* Claims about authentication, checked under AuthSpec *)

NameTaken(n) == \E i \in DOMAIN users : users[i].username = n
MailTaken(e) == \E i \in DOMAIN users : users[i].email = e

\* C6 (as amended): register_user with a username an existing user has fails
\* with "Username already exists"; with a new username and an email an
\* existing user has it fails with "Email already registered"; in both cases
\* the User table is unchanged.
C6_RegisterDuplicate ==
    [][result'.op = "register_user" =>
         LET n == result'.args[1]
             e == result'.args[2]
         IN /\ NameTaken(n) =>
                  /\ ~result'.success
                  /\ result'.message = "Username already exists"
                  /\ UNCHANGED users
            /\ (MailTaken(e) /\ ~NameTaken(n)) =>
                  /\ ~result'.success
                  /\ result'.message = "Email already registered"
                  /\ UNCHANGED users]_vars

\* C6 as stated: every register_user with an email an existing user has
\* fails with "Email already registered".
C6_Original ==
    [][result'.op = "register_user" =>
         LET n == result'.args[1]
             e == result'.args[2]
         IN /\ NameTaken(n) =>
                  /\ ~result'.success
                  /\ result'.message = "Username already exists"
                  /\ UNCHANGED users
            /\ MailTaken(e) =>
                  /\ ~result'.success
                  /\ result'.message = "Email already registered"
                  /\ UNCHANGED users]_vars

\* a registration with a new username was refused for its email
C6_Witness ==
    /\ result.op = "register_user"
    /\ result.message = "Email already registered"
    /\ ~NameTaken(result.args[1])
    /\ Cardinality(DOMAIN users) = 1

\* C7: login_user succeeds exactly when a user has the username and the
\* password is the one last set for that user; the token returned carries
\* that user's id and role and decodes at every time before its expiry; a
\* failed login returns no token; verify_token on the token login returned,
\* before its expiry, succeeds and returns the same user id.
C7_LoginVerify ==
    [][/\ result'.op = "login_user" =>
            LET n == result'.args[1]
                p == result'.args[2]
                m == {i \in DOMAIN users : users[i].username = n}
                payload == result'.token.payload
            IN /\ result'.success <=> (\E i \in m : plain[i] = p)
               /\ result'.success =>
                     /\ payload.user_id \in m
                     /\ payload.role = users[payload.user_id].role
                     /\ result'.user_id = payload.user_id
                     /\ held' = result'.token
                     /\ \A t \in HourTimes :
                           t < payload.exp
                              => JwtDecode(result'.token, SECRET_KEY, t) = {"ok"}
               /\ ~result'.success => result'.token = NoToken
       /\ (/\ result'.op = "verify_token"
           /\ held # NoToken
           /\ result'.args[1] = held
           /\ now' < held.payload.exp
           /\ held.payload.user_id \in DOMAIN users)
          => /\ result'.success
             /\ result'.user_id = held.payload.user_id]_vars

\* the token of a login was verified at a later time, before its expiry,
\* after the user's role had changed
C7_Witness ==
    /\ result.op = "verify_token"
    /\ result.success
    /\ result.args[1] = held
    /\ now + TokenHours > held.payload.exp
    /\ result.role # held.payload.role

\* C12 (AuthSpec): a view wrapped by auth_required(permission) is invoked only
\* for a request whose Authorization header starts with 'Bearer ' and whose
\* token verifies (signed with the key, not expired, its user exists) and, when
\* a permission was given, whose user's role lists that permission in
\* PERMISSIONS; a missing or non-Bearer header and a failed verification are
\* answered 401, a missing permission 403, both without invoking the view; a
\* role that is not in the table has no permission.
RolesInTable == {"admin", "instructor", "student"}
Verifies(token, t) ==
    /\ token.sig = <<SECRET_KEY, token.payload>>
    /\ t <= token.payload.exp
    /\ token.payload.user_id \in DOMAIN users
Lists(role, permission) == role \in RolesInTable /\ permission \in PERMISSIONS[role]
C12_AuthRequired ==
    [][result'.op = "auth_required" =>
          LET header == result'.args[1]
              permission == result'.args[2]
              bearer == header.scheme = "Bearer"
              role == users[header.token.payload.user_id].role
              response == result'.response
          IN /\ response \in {"401", "403", "view_func"}
             /\ response = "view_func" =>
                   /\ bearer
                   /\ Verifies(header.token, now')
                   /\ permission # NoPermission => Lists(role, permission)
             /\ ~bearer => response = "401"
             /\ (bearer /\ ~Verifies(header.token, now')) => response = "401"
             /\ (bearer /\ Verifies(header.token, now') /\ now' < header.token.payload.exp) =>
                   /\ (permission # NoPermission /\ ~Lists(role, permission))
                         => response = "403"
                   /\ (permission # NoPermission /\ role \notin RolesInTable)
                         => response = "403"
                   /\ (permission = NoPermission \/ Lists(role, permission))
                         => response = "view_func"
             /\ response = "401" => ~(bearer /\ Verifies(header.token, now')
                                      /\ now' < header.token.payload.exp)
             /\ UNCHANGED <<users, held, plain>>]_vars

\* a request with a verified token of a user whose role is not in the table
\* was answered 403
C12_Witness ==
    /\ result.op = "auth_required"
    /\ result.response = "403"
    /\ result.args[1].scheme = "Bearer"
    /\ Verifies(result.args[1].token, now)
    /\ users[result.args[1].token.payload.user_id].role \notin RolesInTable

\* C19 (AuthSpec): after any sequence of register_user and update_profile
\* calls no two users have the same username and no two have the same email.
C19_UniqueIdentity ==
    \A i, j \in DOMAIN users :
       i # j => /\ users[i].username # users[j].username
                /\ users[i].email # users[j].email

----------------------------------------------------------------------------
(* Claims about video conferencing, checked under Spec *)

RoomCount(r) == Cardinality({p \in DOMAIN participants : p[1] = r})
IsHostOf(r, u) == r \in DOMAIN rooms /\ rooms[r].host = u
Forward == {<<"scheduled", "scheduled">>, <<"active", "active">>, <<"ended", "ended">>,
            <<"scheduled", "active">>, <<"active", "ended">>}

\* C1: in every step a room that exists stays, and its status either stays or
\* moves one place forward along scheduled -> active -> ended; so an active
\* room never returns to scheduled and an ended room never changes status.
C1_StatusMonotonic ==
    [][\A r \in DOMAIN rooms :
          /\ r \in DOMAIN rooms'
          /\ <<rooms[r].status, rooms'[r].status>> \in Forward]_vars

C1_Witness == \E r \in DOMAIN rooms : rooms[r].status = "ended"

\* C2 (as amended): end_conference succeeds exactly when the caller is the
\* room's host and the status is 'active'; a non-host caller (or an unknown
\* room) gets "Room not found or not authorized" whatever the status; the host
\* of a room in any other status gets "Conference is not active"; a failed call
\* leaves rooms and participants unchanged.
C2_EndConference ==
    [][result'.op = "end_conference" =>
         LET r == result'.room
             u == result'.user
         IN /\ result'.success <=> (IsHostOf(r, u) /\ rooms[r].status = "active")
            /\ (IsHostOf(r, u) /\ rooms[r].status # "active")
                  => result'.message = "Conference is not active"
            /\ ~IsHostOf(r, u) => result'.message = "Room not found or not authorized"
            /\ ~result'.success => UNCHANGED <<rooms, participants>>]_vars

\* C2 as stated: every end_conference on a room whose status is not 'active'
\* fails with "Conference is not active", whoever calls.
C2_Original ==
    [][result'.op = "end_conference" =>
         LET r == result'.room
             u == result'.user
         IN /\ result'.success <=> (IsHostOf(r, u) /\ rooms[r].status = "active")
            /\ (r \in DOMAIN rooms /\ rooms[r].status # "active")
                  => result'.message = "Conference is not active"
            /\ (r \in DOMAIN rooms /\ ~IsHostOf(r, u))
                  => result'.message = "Room not found or not authorized"
            /\ ~result'.success => UNCHANGED <<rooms, participants>>]_vars

\* a non-host was refused on an active room with a participant in the call
C2_Witness ==
    /\ result.op = "end_conference"
    /\ result.message = "Room not found or not authorized"
    /\ result.room \in DOMAIN rooms
    /\ rooms[result.room].status = "active"
    /\ ActiveParticipants(result.room) # {}

\* C3: start_conference succeeds iff the caller is the room's host and the
\* status is 'scheduled'; on success the status is 'active' and actual_start is
\* the time of the call; otherwise the result is a failure and the room is
\* unchanged; an actual_start once set is never written again.
C3_StartConference ==
    [][/\ result'.op = "start_conference" =>
            LET r == result'.room
                u == result'.user
            IN /\ result'.success <=> (IsHostOf(r, u) /\ rooms[r].status = "scheduled")
               /\ result'.success =>
                     /\ rooms'[r].status = "active"
                     /\ rooms'[r].actual_start = now'
                     /\ rooms'[r].actual_start # None
               /\ ~result'.success => UNCHANGED rooms
       /\ \A r \in DOMAIN rooms :
            rooms[r].actual_start # None
               => rooms'[r].actual_start = rooms[r].actual_start]_vars

\* the host's second start_conference was refused
C3_Witness ==
    /\ result.op = "start_conference"
    /\ ~result.success
    /\ IsHostOf(result.room, result.user)
    /\ rooms[result.room].actual_start # None

CapacityMessage == "Room is at maximum capacity"

\* C4 (as amended): add_participant on an existing room whose participant
\* count has reached max_participants fails with the capacity message and
\* leaves every participant record unchanged; join_conference never answers
\* with the capacity message.
C4_AddAtCapacity ==
    [][/\ (/\ result'.op = "add_participant"
           /\ result'.room \in DOMAIN rooms
           /\ result'.user \in DOMAIN users
           /\ RoomCount(result'.room) >= rooms[result'.room].max_participants)
          => /\ ~result'.success
             /\ result'.message = CapacityMessage
             /\ UNCHANGED participants
       /\ result'.op = "join_conference" => result'.message # CapacityMessage]_vars

\* C4 as stated: join_conference on a full room fails with the capacity
\* message and leaves joined_at unchanged.
C4_Original ==
    [][(/\ result'.op = "join_conference"
        /\ result'.room \in DOMAIN rooms
        /\ RoomCount(result'.room) >= rooms[result'.room].max_participants)
          => /\ ~result'.success
             /\ result'.message = CapacityMessage
             /\ UNCHANGED participants]_vars

\* add_participant was refused on a full room whose status is 'active'
C4_Witness ==
    /\ result.op = "add_participant"
    /\ result.message = CapacityMessage
    /\ rooms[result.room].status = "active"
    /\ rooms[result.room].max_participants > 0

\* C5: no room has more ConferenceParticipant rows than its max_participants.
C5_WithinCapacity ==
    \A r \in DOMAIN rooms : RoomCount(r) <= rooms[r].max_participants

\* C13: leave_conference for a participant who had joined stores, and returns,
\* as duration_minutes the whole minutes, truncated, between joined_at and the
\* time of leaving, which it stores as left_at; for a participant who never
\* joined it sets left_at and returns duration 0.
C13_LeaveDuration ==
    [][(result'.op = "leave_conference" /\ result'.success) =>
          LET k == <<result'.room, result'.user>>
              before == participants[k]
              after == participants'[k]
              d == after.duration_minutes
          IN /\ after.left_at = now'
             /\ result'.value = d
             /\ before.joined_at # None =>
                   /\ d >= 0
                   /\ d * SecondsPerMinute <= now' - before.joined_at
                   /\ now' - before.joined_at < (d + 1) * SecondsPerMinute
             /\ before.joined_at = None => d = 0]_vars

\* a participant left half a minute after joining and got 0 minutes, while
\* another row of the table holds a whole minute
C13_Witness ==
    /\ result.op = "leave_conference" /\ result.success
    /\ result.value = 0
    /\ LET p == participants[<<result.room, result.user>>]
       IN p.joined_at # None /\ p.left_at - p.joined_at > 0
    /\ \E k \in DOMAIN participants : participants[k].duration_minutes > 0

\* C15 (AddConcSpec): add_participant compares the count it read with
\* max_participants and inserts later, so a call succeeds exactly when the
\* count it read was below max_participants, whatever other calls inserted in
\* between: two interleaved calls for distinct new users that both read the
\* count before either inserts both succeed on a room with one free slot, and
\* the room then holds more rows than max_participants.  Each overlapping call
\* can add at most one row beyond the limit.
C15_ConcurrentAdd ==
    /\ \A q \in Requests :
          (calls[q].pc = "done" /\ calls[q].count # None) =>
             /\ calls[q].reply.success
                   <=> calls[q].count < rooms[calls[q].room].max_participants
             /\ calls[q].reply.success => <<calls[q].room, calls[q].user>> \in DOMAIN participants
    /\ \A r \in DOMAIN rooms :
          RoomCount(r) <= rooms[r].max_participants + Cardinality(Requests) - 1

\* both calls read one free slot, both inserted, and the room is over its limit
C15_Witness ==
    \E q1, q2 \in Requests :
       /\ calls[q1].pc = "done" /\ calls[q2].pc = "done"
       /\ calls[q1].user # calls[q2].user
       /\ calls[q1].room = calls[q2].room
       /\ calls[q1].reply.message = "Participant added successfully"
       /\ calls[q2].reply.message = "Participant added successfully"
       /\ calls[q1].count = rooms[calls[q1].room].max_participants - 1
       /\ calls[q2].count = calls[q1].count
       /\ RoomCount(calls[q1].room) = rooms[calls[q1].room].max_participants + 1

\* C17: join_conference sets the caller's joined_at, and succeeds, only when
\* the room's status is 'active' and the caller has a participant record in
\* the room; otherwise it fails and changes no field of any record; a caller
\* of an existing room who has no record there gets "Not invited to this
\* conference" whatever the room's status is.
C17_JoinConference ==
    [][result'.op = "join_conference" =>
          LET r == result'.room
              u == result'.user
              invited == <<r, u>> \in DOMAIN participants
              active == r \in DOMAIN rooms /\ rooms[r].status = "active"
          IN /\ result'.success <=> (active /\ invited)
             /\ rooms' = rooms
             /\ result'.success =>
                   /\ participants'[<<r, u>>] =
                         [participants[<<r, u>>] EXCEPT !.joined_at = now']
                   /\ \A k \in DOMAIN participants \ {<<r, u>>} :
                         participants'[k] = participants[k]
                   /\ DOMAIN participants' = DOMAIN participants
             /\ ~result'.success => participants' = participants
             /\ (r \in DOMAIN rooms /\ ~invited) =>
                   result'.message = "Not invited to this conference"]_vars

\* a user without a record was refused at an active room another had joined
C17_Witness ==
    /\ result.op = "join_conference"
    /\ result.message = "Not invited to this conference"
    /\ rooms[result.room].status = "active"
    /\ \E k \in DOMAIN participants : participants[k].joined_at # None

\* C18: a successful end_conference gives every participant of the room who
\* had joined and not left a left_at, read no earlier than the room's
\* actual_end, and the duration in whole minutes from joined_at to it, and
\* leaves the other records as they were; in no state after it does a
\* participant of an ended room have joined_at set and left_at unset, so none
\* becomes active again.
IsActive(row) == row.joined_at # None /\ row.left_at = None
C18_EndClosesParticipants ==
    [][/\ \A k \in DOMAIN participants' :
             rooms'[k[1]].status = "ended" => ~IsActive(participants'[k])
       /\ (result'.op = "end_conference" /\ result'.success) =>
             \A k \in DOMAIN participants :
                LET before == participants[k]
                    after == participants'[k]
                IN IF k[1] = result'.room /\ IsActive(before)
                   THEN /\ after.joined_at = before.joined_at
                        /\ after.left_at # None
                        /\ after.left_at >= rooms'[k[1]].actual_end
                        /\ after.duration_minutes * SecondsPerMinute
                              <= after.left_at - after.joined_at
                        /\ after.left_at - after.joined_at
                              < (after.duration_minutes + 1) * SecondsPerMinute
                   ELSE after = before]_vars

\* the conference was ended while a participant who had joined a minute
\* before was in it, and another had already left
C18_Witness ==
    /\ result.op = "end_conference" /\ result.success
    /\ \E k, j \in DOMAIN participants :
          /\ k[1] = result.room /\ j[1] = result.room
          /\ participants[k].joined_at # None
          /\ participants[k].left_at = now
          /\ participants[k].duration_minutes > 0
          /\ participants[j].left_at # None
          /\ participants[j].left_at < rooms[result.room].actual_end

\* C20: for every participant record with joined_at and left_at both set,
\* left_at is not earlier than joined_at, and duration_minutes is never
\* negative.
C20_LeftAfterJoined ==
    \A k \in DOMAIN participants :
       /\ (participants[k].joined_at # None /\ participants[k].left_at # None)
             => participants[k].left_at >= participants[k].joined_at
       /\ participants[k].duration_minutes >= 0

\* C22: in every state a room's actual_start is set exactly when its status is
\* 'active' or 'ended' and its actual_end is set exactly when its status is
\* 'ended', so the duration end_conference computes from actual_end -
\* actual_start is defined and not negative (and is what it returns); no room
\* ever has status 'cancelled'.
C22_RoomTimestamps ==
    /\ \A r \in DOMAIN rooms :
          LET room == rooms[r] IN
          /\ room.status \in STATUS_CHOICES \ {"cancelled"}
          /\ room.actual_start # None <=> room.status \in {"active", "ended"}
          /\ room.actual_end # None <=> room.status = "ended"
          /\ room.status = "ended" => room.actual_end >= room.actual_start
    /\ (result.op = "end_conference" /\ result.success) =>
          LET room == rooms[result.room] IN
          /\ room.actual_start # None /\ room.actual_end # None
          /\ result.value >= 0
          /\ result.value * SecondsPerMinute <= room.actual_end - room.actual_start
          /\ room.actual_end - room.actual_start < (result.value + 1) * SecondsPerMinute

\* a conference was ended a minute after it was started
C22_Witness ==
    /\ result.op = "end_conference" /\ result.success
    /\ result.value > 0
    /\ rooms[result.room].status = "ended"
    /\ rooms[result.room].actual_end > rooms[result.room].actual_start

=============================================================================
